---- MODULE Spec2Model ----
(***************************************************************************)
(* Model of f1_calendar_sync.py: the reconciliation pass sync_f1_schedule  *)
(* against a Google calendar, with the calendar service's per-item remote  *)
(* failures (HttpError) as nondeterministic inputs.                        *)
(*                                                                         *)
(* Abstractions.  A datetime is a record [aware, day, hour]; minutes and   *)
(* seconds are always zero.  An instant is day*24 + hour.  A string of the *)
(* feed is a record naming its shape: a date is "iso" (YYYY-MM-DD, with its *)
(* day number), "bad" or "empty"; a time is "utc" (HH:00:00Z), "naive"     *)
(* (HH:00:00, no designator), "bad" or "empty".  A text is the sequence of *)
(* its space-separated words; a description is the sequence of the lines   *)
(* that "\n" separates.                                                    *)
(*                                                                         *)
(* Spec is the pass over feeds whose sessions take every shape of date and *)
(* time; FormatSpec is the pass over feeds whose race takes every shape of *)
(* name, round and circuit, the inputs of the two formatters.              *)
(***************************************************************************)
EXTENDS Integers, Sequences, FiniteSets, TLC

\* ---------------------------------------------------------------- bounds
MaxPasses == 2
MaxDay == 1
MaxFaults == 1

Days == 0 .. MaxDay
HoursPerDay == 24
LastHour == 23
EventHours == 2

None == [none |-> TRUE]

\* ------------------------------------------------------------ feed values
SessionTypes == <<"race", "qualy", "sprintRace", "sprintQualy">>

IsoDate(d) == [k |-> "iso", day |-> d]
BadDate == [k |-> "bad", day |-> 0]
EmptyDate == [k |-> "empty", day |-> 0]

UtcTime(h) == [k |-> "utc", hour |-> h]
NaiveTime(h) == [k |-> "naive", hour |-> h]
BadTime == [k |-> "bad", hour |-> 0]
EmptyTime == [k |-> "empty", hour |-> 0]

\* schedule.get(session_type, {}) : a missing session is the empty dict
Absent == [present |-> FALSE, date |-> EmptyDate, time |-> EmptyTime]
Session(d, t) == [present |-> TRUE, date |-> d, time |-> t]

Evening == Session(IsoDate(0), UtcTime(21))
Night == Session(IsoDate(0), UtcTime(22))

\* The race of the weekend takes every shape of session; qualifying is
\* absent or late on day 0, and the modelled weekends have no sprint.
RaceChoices ==
    {Absent, Evening, Night}
    \cup {Session(IsoDate(d), UtcTime(10)) : d \in Days}
    \cup {Session(IsoDate(0), EmptyTime), Session(BadDate, UtcTime(10)),
          Session(IsoDate(0), BadTime), Session(IsoDate(0), NaiveTime(10))}

SessionChoices(st) ==
    CASE st = "race" -> RaceChoices
      [] st = "qualy" -> {Absent, Evening, Night}
      [] OTHER -> {Absent}

Schedules ==
    {s \in [{SessionTypes[n] : n \in 1 .. Len(SessionTypes)} -> RaceChoices] :
        \A st \in DOMAIN s : s[st] \in SessionChoices(st)}

RaceInfo ==
    [raceName |-> <<"Monaco", "Grand", "Prix", "2025">>,
     round |-> <<"8">>,
     circuitName |-> <<"Circuit", "de", "Monaco">>,
     city |-> <<"Monte", "Carlo">>,
     country |-> <<"Monaco">>]

Races == {[info |-> RaceInfo, schedule |-> s] : s \in Schedules}

Feeds == {<<>>} \cup {<<r>> : r \in Races}

\* -------------------------------------------------------- pure functions
\* parse_f1_datetime: None for an empty or malformed string; otherwise the
\* datetime fromisoformat builds, timezone-aware only when the time carried
\* the "Z" that the code rewrites to "+00:00".
parse_f1_datetime(date_str, time_str) ==
    IF date_str.k = "empty" \/ time_str.k = "empty" THEN None
    ELSE IF date_str.k = "bad" \/ time_str.k = "bad" THEN None
    ELSE [aware |-> time_str.k = "utc", day |-> date_str.day, hour |-> time_str.hour]

Instant(dt) == dt.day * HoursPerDay + dt.hour

\* a split that drops the last word of every name, a one-word name included
RSplitFirst_DropsLast(words) == SubSeq(words, 1, Len(words) - 1)

\* race_name.rsplit(" ", 1)[0]
RSplitFirst(words) ==
    IF Len(words) >= 2 THEN SubSeq(words, 1, Len(words) - 1) ELSE words

session_labels(session_type) ==
    CASE session_type = "race" -> <<"Race">>
      [] session_type = "qualy" -> <<"Qualifying">>
      [] session_type = "sprintRace" -> <<"Sprint", "Race">>
      [] session_type = "sprintQualy" -> <<"Sprint", "Qualifying">>
      [] OTHER -> <<session_type>>

format_session_title(info, session_type) ==
    LET race_name == IF info.raceName # <<>> THEN RSplitFirst(info.raceName)
                     ELSE <<"F1", "Race">>
        head == <<"F1">> \o race_name \o <<"-">> \o session_labels(session_type)
    IN  IF info.circuitName # <<>> THEN head \o <<"(">> \o info.circuitName \o <<")">>
        ELSE IF info.country # <<>> THEN head \o <<"(">> \o info.country \o <<")">>
        ELSE head

\* "Formula 1 {label}\n" + "\n".join(parts), as the lines "\n" separates
format_session_description(info, session_type) ==
    LET p1 == IF info.round # <<>> THEN <<<<"Round">> \o info.round>> ELSE <<>>
        p2 == IF info.circuitName # <<>>
              THEN <<<<"Circuit:">> \o info.circuitName>> ELSE <<>>
        p3 == IF info.city # <<>> /\ info.country # <<>>
              THEN <<<<"Location:">> \o info.city \o <<",">> \o info.country>>
              ELSE IF info.country # <<>>
              THEN <<<<"Location:">> \o info.country>> ELSE <<>>
        parts == p1 \o p2 \o p3
        header == <<"Formula", "1">> \o session_labels(session_type)
    IN  <<header>> \o (IF parts = <<>> THEN <<<<>>>> ELSE parts)

\* f"{city}, {country}".strip(", ")
Location(info) ==
    IF info.city # <<>> /\ info.country # <<>>
    THEN info.city \o <<",">> \o info.country
    ELSE info.city \o info.country

\* ------------------------------------------------------------------ state
VARIABLES
    events,        \* the calendar: events[id] is the event with that id
    events0,       \* the calendar before the first pass
    pc,            \* "idle", "loop", "done" (returned) or "crashed" (raised)
    error,         \* the exception that left sync_f1_schedule, or "none"
    races,         \* the feed of the pass
    current_time,  \* the reference instant of the pass
    ri, si,        \* the loop position: race index, session-type index
    added_count, updated_count, past_count, invalid_date_count,
    summary,       \* the five counters as logged, or None
    report,        \* the closing message: "none", "allPast" or "unknown"
    passes,        \* passes started so far
    ops,           \* remote calls issued by the latest loop step, in order
    eligible,      \* future, valid sessions met so far in the pass
    lookup_errors, \* lookups of the pass that raised HttpError
    write_errors,  \* creates and replaces of the pass that raised HttpError
    faults,        \* remote calls that raised HttpError since the start
    prev           \* what the previous pass left when this pass has the
                   \* same feed, otherwise None

vars == <<events, events0, pc, error, races, current_time, ri, si, added_count,
          updated_count, past_count, invalid_date_count, summary, report,
          passes, ops, eligible, lookup_errors, write_errors, faults, prev>>

counters == <<added_count, updated_count, past_count, invalid_date_count>>

\* --------------------------------------------------------- calendar store
\* events().list(timeMin, timeMax, orderBy="startTime"): the events that end
\* after timeMin (the day's 00:00:00) and start before timeMax (23:59:59)
TimeMin(event_start) == event_start.day * HoursPerDay
TimeMax(event_start) == event_start.day * HoursPerDay + LastHour

Listed(event_start) ==
    {id \in DOMAIN events :
        /\ events[id].end > TimeMin(event_start)
        /\ events[id].start <= TimeMax(event_start)}

\* a scan that returns the first listed event whatever its title
Matching_AnyTitle(event_title, event_start) ==
    {id \in Listed(event_start) :
        \A o \in Listed(event_start) : events[id].start <= events[o].start}

\* find_existing_event without a failure: the ids the scan may return, the
\* first of the listed events with that title (the order of events with
\* equal start is the store's choice); empty when it returns None
Matching(event_title, event_start) ==
    LET m == {id \in Listed(event_start) : events[id].summary = event_title}
    IN  {id \in m : \A o \in m : events[id].start <= events[o].start}

NotFound == [found |-> FALSE, id |-> 0]
Found(id) == [found |-> TRUE, id |-> id]

\* the results of find_existing_event; an HttpError is caught and gives None
find_existing_event(event_title, event_start, fails) ==
    IF fails \/ Matching(event_title, event_start) = {} THEN {NotFound}
    ELSE {Found(id) : id \in Matching(event_title, event_start)}

\* end_time = start_time.replace(hour=start_time.hour + 2): replace raises
\* ValueError for an hour outside 0..23
EndTimeRaises(start_time) == start_time.hour + EventHours > LastHour
EndTime(start_time) == [start_time EXCEPT !.hour = start_time.hour + EventHours]

EventBody(title, start_time, description, location) ==
    [summary |-> title, description |-> description, location |-> location,
     start |-> Instant(start_time), end |-> Instant(EndTime(start_time))]

Call(op, ok) == [op |-> op, ok |-> ok]

\* ------------------------------------------------------------------- Init
\* The calendar is new, or holds the race as an earlier pass wrote it.
SeedStart == [aware |-> TRUE, day |-> 0, hour |-> 10]
SeedEvent ==
    EventBody(format_session_title(RaceInfo, "race"), SeedStart,
              format_session_description(RaceInfo, "race"), Location(RaceInfo))
Seeds == {<<>>, <<SeedEvent>>}

Init ==
    /\ events \in Seeds
    /\ events0 = events
    /\ pc = "idle"
    /\ error = "none"
    /\ races = <<>>
    /\ current_time = 0
    /\ ri = 1 /\ si = 1
    /\ added_count = 0 /\ updated_count = 0
    /\ past_count = 0 /\ invalid_date_count = 0
    /\ summary = None
    /\ report = "none"
    /\ passes = 0
    /\ ops = <<>>
    /\ eligible = 0 /\ lookup_errors = 0 /\ write_errors = 0
    /\ faults = 0
    /\ prev = None

\* ------------------------------------------------- sync_f1_schedule: start
NowChoices == {10, 21, 22}

Snapshot ==
    [current_time |-> current_time, pc |-> pc, eligible |-> eligible,
     added |-> added_count, updated |-> updated_count,
     errors |-> lookup_errors + write_errors, events |-> events]

BeginPass ==
    /\ pc \in {"idle", "done", "crashed"}
    /\ passes < MaxPasses
    /\ passes' = passes + 1
    /\ ri' = 1 /\ si' = 1
    /\ added_count' = 0 /\ updated_count' = 0
    /\ past_count' = 0 /\ invalid_date_count' = 0
    /\ summary' = None /\ report' = "none"
    /\ ops' = <<>>
    /\ eligible' = 0 /\ lookup_errors' = 0 /\ write_errors' = 0

\* get_or_create_calendar re-raises the HttpError of the calendar list or
\* insert: the pass ends before the feed is fetched
CalendarResolutionFails ==
    /\ BeginPass
    /\ pc' = "crashed" /\ error' = "HttpError"
    /\ races' = <<>> /\ prev' = None
    /\ UNCHANGED <<events, events0, current_time, faults>>

\* "No races found": the pass returns before the counters exist
NoRaces ==
    /\ BeginPass
    /\ races' = <<>> /\ prev' = None
    /\ pc' = "done" /\ error' = "none"
    /\ UNCHANGED <<events, events0, current_time, faults>>

StartLoopOn(feeds) ==
    /\ BeginPass
    /\ \E feed \in feeds :
        /\ races' = feed
        /\ prev' = IF passes > 0 /\ feed = races THEN Snapshot ELSE None
    /\ \E now \in NowChoices : now >= current_time /\ current_time' = now
    /\ pc' = "loop" /\ error' = "none"
    /\ UNCHANGED <<events, events0, faults>>

StartLoop == StartLoopOn(Feeds \ {<<>>})

\* ---------------------------------------------- sync_f1_schedule: the loop
InLoop == pc = "loop" /\ ri <= Len(races)

race == races[ri]
session_type == SessionTypes[si]
session == race.schedule[session_type]
match_datetime == parse_f1_datetime(session.date, session.time)

NextSession ==
    /\ pc' = "loop" /\ error' = "none"
    /\ IF si < Len(SessionTypes) THEN ri' = ri /\ si' = si + 1
       ELSE ri' = ri + 1 /\ si' = 1

Raise(exc) == pc' = "crashed" /\ error' = exc /\ UNCHANGED <<ri, si>>

loopFrame == <<events0, races, current_time, summary, report, passes, prev>>

\* if not session or not session.get("date") or not session.get("time")
SessionOmitted(s) ==
    \/ ~s.present
    \/ s.date.k = "empty"
    \/ s.time.k = "empty"

Omitted == SessionOmitted(session)

SkipOmitted ==
    /\ InLoop /\ Omitted
    /\ NextSession
    /\ ops' = <<>>
    /\ UNCHANGED <<events, counters, eligible, lookup_errors, write_errors,
                   faults, loopFrame>>

SkipInvalid ==
    /\ InLoop /\ ~Omitted
    /\ match_datetime = None
    /\ invalid_date_count' = invalid_date_count + 1
    /\ NextSession
    /\ ops' = <<>>
    /\ UNCHANGED <<events, added_count, updated_count, past_count, eligible,
                   lookup_errors, write_errors, faults, loopFrame>>

\* match_datetime < current_time with a naive match_datetime: TypeError
\* ("can't compare offset-naive and offset-aware datetimes"), caught nowhere
CompareNaive ==
    /\ InLoop /\ ~Omitted
    /\ match_datetime # None /\ ~match_datetime.aware
    /\ Raise("TypeError")
    /\ ops' = <<>>
    /\ UNCHANGED <<events, counters, eligible, lookup_errors, write_errors,
                   faults, loopFrame>>

\* the comparison of line 431 with "<=" in place of "<"
IsPast_NotStrict(dt, now) == Instant(dt) <= now

\* match_datetime < current_time
IsPast(dt, now) == Instant(dt) < now

SkipPast ==
    /\ InLoop /\ ~Omitted
    /\ match_datetime # None /\ match_datetime.aware
    /\ IsPast(match_datetime, current_time)
    /\ past_count' = past_count + 1
    /\ NextSession
    /\ ops' = <<>>
    /\ UNCHANGED <<events, added_count, updated_count, invalid_date_count,
                   eligible, lookup_errors, write_errors, faults, loopFrame>>

Eligible ==
    /\ InLoop /\ ~Omitted
    /\ match_datetime # None /\ match_datetime.aware
    /\ ~IsPast(match_datetime, current_time)

title == format_session_title(race.info, session_type)
description == format_session_description(race.info, session_type)
location == Location(race.info)

Bump(n, b) == IF b THEN n + 1 ELSE n

\* Both lookups are issued; add_or_update_event then raises ValueError while
\* it prepares the event data, which its "except HttpError" does not catch
ReconcileEndTimeRaises ==
    /\ Eligible
    /\ EndTimeRaises(match_datetime)
    /\ \E f1, f2 \in BOOLEAN :
        /\ ops' = <<Call("list", ~f1), Call("list", ~f2)>>
        /\ lookup_errors' = Bump(Bump(lookup_errors, f1), f2)
        /\ faults' = Bump(Bump(faults, f1), f2)
        /\ faults' <= MaxFaults
    /\ eligible' = eligible + 1
    /\ Raise("ValueError")
    /\ UNCHANGED <<events, counters, write_errors, loopFrame>>

\* The lookup of sync_f1_schedule (was_existing), then add_or_update_event:
\* its own lookup, then the replace of the event found or the create
Reconcile ==
    /\ Eligible
    /\ ~EndTimeRaises(match_datetime)
    /\ \E f1, f2, fw \in BOOLEAN :
       \E r1 \in find_existing_event(title, match_datetime, f1) :
       \E r2 \in find_existing_event(title, match_datetime, f2) :
        LET was_existing == r1.found
            event == EventBody(title, match_datetime, description, location)
            write == IF r2.found THEN "update" ELSE "insert"
            event_id == ~fw
        IN  /\ ops' = <<Call("list", ~f1), Call("list", ~f2), Call(write, ~fw)>>
            /\ events' = IF fw THEN events
                         ELSE IF r2.found THEN [events EXCEPT ![r2.id] = event]
                         ELSE Append(events, event)
            /\ updated_count' = Bump(updated_count, event_id /\ was_existing)
            /\ added_count' = Bump(added_count, event_id /\ ~was_existing)
            /\ lookup_errors' = Bump(Bump(lookup_errors, f1), f2)
            /\ write_errors' = Bump(write_errors, fw)
            /\ faults' = Bump(Bump(Bump(faults, f1), f2), fw)
            /\ faults' <= MaxFaults
    /\ eligible' = eligible + 1
    /\ NextSession
    /\ UNCHANGED <<past_count, invalid_date_count, loopFrame>>

\* -------------------------------------------- sync_f1_schedule: the summary
Report(added, updated, past) ==
    IF added = 0 /\ updated = 0 /\ past > 0 THEN "allPast"
    ELSE IF added = 0 /\ updated = 0 THEN "unknown"
    ELSE "none"

EmitSummary ==
    /\ pc = "loop" /\ ri > Len(races)
    /\ summary' = [totalFetched |-> Len(races), added |-> added_count,
                   updated |-> updated_count, pastSkipped |-> past_count,
                   invalidSkipped |-> invalid_date_count]
    /\ report' = Report(added_count, updated_count, past_count)
    /\ pc' = "done"
    /\ ops' = <<>>
    /\ UNCHANGED <<events, events0, error, races, current_time, ri, si, counters,
                   passes, eligible, lookup_errors, write_errors, faults, prev>>

Next ==
    \/ CalendarResolutionFails
    \/ NoRaces
    \/ StartLoop
    \/ SkipOmitted
    \/ SkipInvalid
    \/ CompareNaive
    \/ SkipPast
    \/ ReconcileEndTimeRaises
    \/ Reconcile
    \/ EmitSummary

Spec == Init /\ [][Next]_vars

\* ------------------------------------------------- the formatters' inputs
\* The passes over one race whose name and circuit fields take every shape:
\* a name of several words, of one word, or empty; round, circuit name, city
\* and country each given or not.  Its four sessions are on day 0, two in
\* the morning and two in the evening.
RaceNames ==
    {<<"Australian", "Grand", "Prix", "2025">>, <<"Monaco", "Grand", "Prix", "2025">>,
     <<"Monaco">>, <<>>}

RaceInfos ==
    {[raceName |-> n, round |-> r, circuitName |-> c, city |-> ci, country |-> co] :
        n \in RaceNames, r \in {<<>>, RaceInfo.round},
        c \in {<<>>, RaceInfo.circuitName}, ci \in {<<>>, RaceInfo.city},
        co \in {<<>>, RaceInfo.country}}

Morning == Session(IsoDate(0), UtcTime(10))
Weekend ==
    [st \in {SessionTypes[n] : n \in 1 .. Len(SessionTypes)} |->
        IF st \in {"race", "sprintRace"} THEN Morning ELSE Evening]

FormatFeeds == {<<[info |-> i, schedule |-> Weekend]>> : i \in RaceInfos}

FormatInit ==
    /\ events \in Seeds
    /\ events0 = events
    /\ pc = "idle"
    /\ error = "none"
    /\ races \in FormatFeeds
    /\ current_time = 0
    /\ ri = 1 /\ si = 1
    /\ added_count = 0 /\ updated_count = 0
    /\ past_count = 0 /\ invalid_date_count = 0
    /\ summary = None
    /\ report = "none"
    /\ passes = 0
    /\ ops = <<>>
    /\ eligible = 0 /\ lookup_errors = 0 /\ write_errors = 0
    /\ faults = 0
    /\ prev = None

\* every pass fetches the same feed
StartFormatLoop == StartLoopOn({races})

\* the steps of Next that such a feed enables
FormatNext ==
    \/ StartFormatLoop
    \/ SkipPast
    \/ Reconcile
    \/ EmitSummary

FormatSpec == FormatInit /\ [][FormatNext]_vars

\* ================================================================= claims
\* The sessions of the feed, by position, and what the loop has done so far.
Positions == {<<r, n>> \in (1 .. Len(races)) \X (1 .. Len(SessionTypes)) : TRUE}
SessionAt(p) == races[p[1]].schedule[SessionTypes[p[2]]]
TitleAt(p) == format_session_title(races[p[1]].info, SessionTypes[p[2]])

\* both fields present and the pair combines into a UTC instant
IsUtc(s) ==
    /\ s.present
    /\ s.date.k = "iso"
    /\ s.time.k = "utc"
StartOf(s) == s.date.day * HoursPerDay + s.time.hour
\* both fields present (non-empty) and the pair is no UTC instant
IsMalformed(s) ==
    /\ s.present
    /\ s.date.k # "empty" /\ s.time.k # "empty"
    /\ ~IsUtc(s)
IsFuture(s, now) == IsUtc(s) /\ StartOf(s) >= now
IsBefore(s, now) == IsUtc(s) /\ StartOf(s) < now

\* the sessions the loop has finished with, and the one it handled last
Done == {p \in Positions : p[1] < ri \/ (p[1] = ri /\ p[2] < si)}
Stepped == (pc = "crashed" /\ error # "HttpError") \/ (pc = "loop" /\ Done # {})
LastPos ==
    IF pc = "crashed" THEN <<ri, si>>
    ELSE IF si > 1 THEN <<ri, si - 1>> ELSE <<ri - 1, Len(SessionTypes)>>
Last == SessionAt(LastPos)
InPass == pc \in {"loop", "done", "crashed"} /\ races # <<>>
Ended == pc \in {"done", "crashed"} /\ error # "HttpError"

\* every session of the feed is absent or a UTC instant
WellFormed == \A p \in Positions : ~SessionAt(p).present \/ IsUtc(SessionAt(p))

NumFuture == Cardinality({p \in Positions : IsFuture(SessionAt(p), current_time)})
SameDay(a, b) == a \div HoursPerDay = b \div HoursPerDay
WithTitle(cal, t) == {id \in DOMAIN cal : cal[id].summary = t}
Wrote == Len(ops) = 3 /\ ops[3].ok
LookupFailed == \E n \in DOMAIN ops : ops[n].op = "list" /\ ~ops[n].ok

\* C1: the calendar never holds two events with the same title on the same
\* calendar day, whatever lookups and writes fail.
C1_NoDuplicateOnDay ==
    \A a, b \in DOMAIN events :
        (a # b /\ events[a].summary = events[b].summary)
            => ~SameDay(events[a].start, events[b].start)

C2_Reports(a, u) == summary # None /\ summary.added = a /\ summary.updated = u
C2_FreshTitles ==
    \A p \in Positions :
        IsFuture(SessionAt(p), current_time) => WithTitle(events0, TitleAt(p)) = {}
\* C2: two passes on the same feed (here one of well-formed timestamps) at
\* the same reference instant, with no remote failure, from a calendar
\* holding none of the candidates' titles: the first reports added = N,
\* updated = 0 and the second added = 0, updated = N, N being the number of
\* future, valid sessions of the feed.
C2_TwiceAddsThenUpdates ==
    (Ended /\ races # <<>> /\ WellFormed /\ faults = 0 /\ C2_FreshTitles) =>
        /\ passes = 1 => C2_Reports(NumFuture, 0)
        /\ (passes = 2 /\ prev # None /\ prev.current_time = current_time)
              => C2_Reports(0, NumFuture)

\* C3: after a completed pass that wrote every candidate, a second pass on
\* the same feed without a remote failure leaves the calendar as the first
\* pass left it.
C3_SecondPassChangesNothing ==
    (/\ pc = "done" /\ summary # None
     /\ lookup_errors = 0 /\ write_errors = 0
     /\ prev # None /\ prev.pc = "done"
     /\ prev.added + prev.updated = prev.eligible)
        => events = prev.events

\* C4: after passes without remote failures, every upcoming valid session of
\* the latest feed has exactly one event, and it starts when the session does.
C4_OneEventPerSession ==
    (pc = "done" /\ summary # None /\ faults = 0) =>
        \A p \in Positions :
            IsFuture(SessionAt(p), current_time) =>
                /\ Cardinality(WithTitle(events, TitleAt(p))) = 1
                /\ \A id \in WithTitle(events, TitleAt(p)) :
                       events[id].start = StartOf(SessionAt(p))

\* C5: a candidate whose lookup failed gets no event id: nothing is created
\* or replaced for it, and the loop goes on to the next session.
C5_LookupFailureWritesNothing ==
    (Stepped /\ LookupFailed) =>
        /\ pc = "loop"
        /\ \A n \in DOMAIN ops : ops[n].op = "list"

\* C6: when creates or replaces fail (here at least one, on a feed of
\* well-formed timestamps) while the lookups succeed, the pass still goes
\* through every candidate and reports added + updated = the number of
\* eligible candidates minus the failed writes.
C6_FailedWritesOnlyUncounted ==
    (Ended /\ races # <<>> /\ WellFormed /\ lookup_errors = 0 /\ write_errors >= 1) =>
        /\ summary # None
        /\ summary.added + summary.updated = NumFuture - write_errors

\* C7: for an eligible candidate the write is issued, and the event written
\* ends exactly 2 hours after it starts.
C7_EndIsStartPlusTwo ==
    (Stepped /\ IsFuture(Last, current_time)) =>
        /\ Len(ops) = 3
        /\ Wrote =>
             \E id \in DOMAIN events :
                 /\ events[id].summary = TitleAt(LastPos)
                 /\ events[id].start = StartOf(Last)
                 /\ events[id].end = StartOf(Last) + EventHours

C8_PastProcessed == {p \in Done : IsBefore(SessionAt(p), current_time)}
C9_MalformedProcessed == {p \in Done : IsMalformed(SessionAt(p))}
\* C9: a session whose non-empty date and time do not combine into a UTC
\* instant is counted as invalid, causes no remote call and no exception.
C9_MalformedCountedInvalid ==
    /\ InPass => invalid_date_count = Cardinality(C9_MalformedProcessed)
    /\ (Stepped /\ IsMalformed(Last)) => (pc = "loop" /\ ops = <<>>)

C10_ZeroSummary ==
    [totalFetched |-> 0, added |-> 0, updated |-> 0, pastSkipped |-> 0,
     invalidSkipped |-> 0]
\* C10: a pass that got past calendar resolution ends with the summary
\* emitted; with zero races the summary shows all-zero counts.
C10_SummaryAlwaysEmitted ==
    Ended =>
        /\ summary # None
        /\ races = <<>> => summary = C10_ZeroSummary

C11_Slots == {p \in Positions : ~SessionOmitted(SessionAt(p))}
\* C11: at the end of any pass every slot is accounted for exactly once, so
\* added + updated + pastSkipped + invalidSkipped = the number of slots with
\* both date and time present - the number of failed writes.
C11_SlotsAccountedOnce ==
    Ended =>
        added_count + updated_count + past_count + invalid_date_count
            = Cardinality(C11_Slots) - write_errors

\* the events the passes created or changed, and the name of the feed's race
Written == {id \in DOMAIN events : id > Len(events0) \/ events[id] # events0[id]}
FedName == races[1].info.raceName
\* the words of a title between its leading "F1" and the first "-"
NamePart(t) ==
    LET k == CHOOSE k \in 2 .. Len(t) : t[k] = "-" /\ \A j \in 2 .. (k - 1) : t[j] # "-"
    IN  SubSeq(t, 2, k - 1)
DropLast(words) == SubSeq(words, 1, Len(words) - 1)

\* C12: the race-name part of every title is the race name (here a non-empty
\* one) without its last space-delimited token: a name of one token leaves
\* an empty part.
C12_LastTokenRemoved ==
    \A id \in Written :
        FedName # <<>> => NamePart(events[id].summary) = DropLast(FedName)

\* C12 (amended): a name of two or more tokens loses only its last token, a
\* name of one token is kept whole, and an empty name gives "F1 Race".
C12_TrailingTokenStripped ==
    \A id \in Written :
        NamePart(events[id].summary) =
            IF Len(FedName) >= 2 THEN DropLast(FedName)
            ELSE IF Len(FedName) = 1 THEN FedName
            ELSE <<"F1", "Race">>

\* a pass wrote the events of a race whose name is one word
C12_Witness ==
    /\ pc = "done" /\ summary # None
    /\ Len(FedName) = 1
    /\ \E id \in Written : NamePart(events[id].summary) = FedName

C13_Created == Len(events) - Len(events0)
\* C13: in the first pass, whatever lookups fail, added is the number of
\* events the pass has created and updated the number of replaces it has
\* performed (the candidates reconciled without a failed write that were not
\* created).
C13_CountsMatchWrites ==
    (passes = 1 /\ pc \in {"loop", "done"} /\ races # <<>>) =>
        /\ added_count = C13_Created
        /\ updated_count = eligible - write_errors - C13_Created

\* the step replaced the event id by the candidate's event and nothing else
C14_Replaced(id) ==
    events' = [events EXCEPT
                  ![id] = EventBody(title, match_datetime, description, location)]
\* C14: when the lookup of add_or_update_event returns events with the
\* candidate's title on its day, the step issues a replace and no create; the
\* replace, when it succeeds, overwrites the first of them and nothing else;
\* the number of events is unchanged.
C14_ReplacesFirstOnly ==
    [][(Eligible /\ Matching(title, match_datetime) # {}
            /\ Len(ops') >= 2 /\ ops'[2].ok) =>
         /\ Len(events') = Len(events)
         /\ Len(ops') = 3 /\ ops'[3].op = "update"
         /\ IF ops'[3].ok
            THEN \E id \in Matching(title, match_datetime) : C14_Replaced(id)
            ELSE events' = events]_vars

\* the event is on the candidate's calendar day and has its title
C15_MatchesCandidate(e) ==
    /\ Eligible
    /\ e.summary = title
    /\ e.start \div HoursPerDay = match_datetime.day
\* C15: no step of any pass removes an event, and a step changes only an
\* event whose title and calendar day are those of the eligible candidate it
\* reconciles: the events of sessions that left the feed or are past stay
\* as they are.
C15_NeverDeletes ==
    [][/\ Len(events') >= Len(events)
       /\ \A id \in DOMAIN events :
              events'[id] # events[id] => C15_MatchesCandidate(events[id])]_vars

\* a pass created an event while the calendar's first event, whose session
\* is past or no longer in the feed, is as it was
C15_Witness ==
    /\ pc = "done" /\ summary # None
    /\ Len(events0) = 1 /\ Len(events) > 1
    /\ events[1] = events0[1]
    /\ ~IsFuture(SessionAt(<<1, 1>>), current_time)

\* every session with date and time present was skipped as past
C16_AllPresentPast ==
    /\ \A p \in C11_Slots : IsBefore(SessionAt(p), current_time)
    /\ invalid_date_count = 0 /\ write_errors = 0
\* C16: a pass that ends with added = 0 and updated = 0 reports "all sessions
\* are in the past" only if every session with date and time present was
\* skipped as past, and gives the unknown-reason warning in every other case.
C16_AllPastOnlyWhenAllPast ==
    (pc = "done" /\ summary # None /\ added_count = 0 /\ updated_count = 0) =>
        /\ report = "allPast" => C16_AllPresentPast
        /\ ~C16_AllPresentPast => report = "unknown"

FedInfo == races[1].info
\* the optional lines of a description: Round, Circuit, Location, in order
C17_Optional(info) ==
    (IF info.round # <<>> THEN <<<<"Round">> \o info.round>> ELSE <<>>)
    \o (IF info.circuitName # <<>>
        THEN <<<<"Circuit:">> \o info.circuitName>> ELSE <<>>)
    \o (IF info.city # <<>> /\ info.country # <<>>
        THEN <<<<"Location:">> \o info.city \o <<",">> \o info.country>>
        ELSE IF info.country # <<>> THEN <<<<"Location:">> \o info.country>>
        ELSE <<>>)
\* C17: the description of every event written is the header line
\* "Formula 1 {label}" followed by the optional lines Round, Circuit,
\* Location in that order and by nothing else (no trailing newline, no blank
\* line), whichever of round, circuit name, city and country are present.
C17_NoTrailingNewline ==
    \A id \in Written :
        \E n \in 1 .. Len(SessionTypes) :
            /\ events[id].summary = format_session_title(FedInfo, SessionTypes[n])
            /\ events[id].description =
                   <<<<"Formula", "1">> \o session_labels(SessionTypes[n])>>
                       \o C17_Optional(FedInfo)

\* the calendar holds the event of session p: its title and its start
C18_HasEvent(p, id) ==
    /\ events[id].summary = TitleAt(p)
    /\ events[id].start = StartOf(SessionAt(p))
C18_OnSameDay(p, q) == SessionAt(p).date.day = SessionAt(q).date.day
\* C18: the titles of a race's four session types are pairwise distinct, and
\* after a pass without remote failure two upcoming sessions of the race on
\* the same calendar day have two separate events, each with its own start.
C18_SameDaySeparateEvents ==
    /\ \A p, q \in Positions : p # q => TitleAt(p) # TitleAt(q)
    /\ (Ended /\ faults = 0) =>
          \A p, q \in Positions :
              (/\ p # q
               /\ IsFuture(SessionAt(p), current_time)
               /\ IsFuture(SessionAt(q), current_time)
               /\ C18_OnSameDay(p, q))
                  => \E a, b \in DOMAIN events :
                         a # b /\ C18_HasEvent(p, a) /\ C18_HasEvent(q, b)

====
